---- MODULE Spec2Model ----
(***************************************************************************)
(* Model of the flashcard back end: the Leitner scheduling functions of    *)
(* backend/src/logic/algorithm.ts, the in-memory state of backend/src/     *)
(* state.ts and the request handlers of backend/src/server.ts.             *)
(*                                                                         *)
(* JavaScript Maps and Sets are mutable objects that are passed by         *)
(* reference, so they live in a heap: a Set object is a set of cards, a    *)
(* Map object keeps its keys in insertion order and maps each key to the   *)
(* identity of a Set object.  Objects are never freed; an identity is the  *)
(* position of the object in the heap.                                     *)
(***************************************************************************)
EXTENDS Integers, Sequences, FiniteSets, TLC

(* ------------------------------ bounds --------------------------------- *)
\* largest number of cards in initialCards (the repository has 20)
NumCards == 2
\* successful review submissions per run (the history grows without bound)
MaxHistory == 4
\* day advances per run (the day counter grows without bound)
MaxDay == 1
\* largest bucket index of an assignment handed to a scheduler function
MaxInputBucket == 5
\* largest day handed to practice()
MaxInputDay == 8
MaxPendingAnswers == 3

(* --------------------------- program values ---------------------------- *)
\* the cards a deck is made of; a card stands for its (front, back) pair
Cards == 1..NumCards

\* enum AnswerDifficulty { Wrong = 0, Hard = 1, Easy = 2 }; a difficulty is
\* kept as a token that tells the JSON number n ("num_n") from a string.
Wrong == "num_0"
Hard == "num_1"
Easy == "num_2"
AnswerDifficulty == {Wrong, Hard, Easy}

\* the keys of the compiled enum object: a numeric enum is compiled with its
\* reverse mapping, so the member names are keys as well as the numbers
\* (a number n is the property key "n")
EnumKeys ==
  {Wrong, Hard, Easy, "str_0", "str_1", "str_2",
   "str_Wrong", "str_Hard", "str_Easy"}

\* what findCardBucket returns when no bucket holds the card
undefined == -99

\* first index at which a card is no longer put into a bucket
RetireThresholdHigh == 4 + 2
RetireThreshold == 4

Min(S) == CHOOSE x \in S : \A y \in S : x <= y
Max(S) == CHOOSE x \in S : \A y \in S : x >= y

(* ------------------------------- heap ---------------------------------- *)
\* heap.sets[r] : the cards of Set object r
\* heap.maps[m] : Map object m, [order |-> keys in insertion order,
\*                               ref   |-> key :> Set object]
EmptyHeap == [sets |-> << >>, maps |-> << >>]

\* new Set(cards) on a collection of cards: allocates a Set object
NewSet(h, cards) ==
  [heap |-> [h EXCEPT !.sets = Append(@, cards)], ref |-> Len(h.sets) + 1]

\* `new Set(cards)` of update(): a fresh Set object with the members of r
ShallowCopy(h, r) == [heap |-> h, ref |-> r]
CopySet(h, r) == NewSet(h, h.sets[r])

\* new Map(): allocates an empty Map object
NewMap(h) ==
  [heap |-> [h EXCEPT !.maps = Append(@, [order |-> << >>, ref |-> << >>])],
   ref |-> Len(h.maps) + 1]

MapKeys(h, m) == DOMAIN h.maps[m].ref
MapHas(h, m, index) == index \in MapKeys(h, m)
MapGet(h, m, index) == h.maps[m].ref[index]
MapSize(h, m) == Len(h.maps[m].order)

\* Map.prototype.set: a new key goes to the end of the insertion order, an
\* existing key keeps its place
MapSet(h, m, index, r) ==
  IF MapHas(h, m, index)
    THEN [h EXCEPT !.maps[m].ref[index] = r]
    ELSE [h EXCEPT !.maps[m] =
            [order |-> Append(@.order, index),
             ref |-> [i \in DOMAIN @.ref \cup {index} |->
                        IF i = index THEN r ELSE @.ref[i]]]]

SetHas(h, r, card) == card \in h.sets[r]
\* Set.prototype.add / delete: in place, every holder of r sees the change
SetAddAlone(h, r, card) == [h EXCEPT !.sets[r] = {card}]
SetAdd(h, r, card) == [h EXCEPT !.sets[r] = @ \cup {card}]
SetDeleteNoop(h, r, card) == h
SetDelete(h, r, card) == [h EXCEPT !.sets[r] = @ \ {card}]

\* the value of Map object m: its insertion order and the members per key
Deref(h, m) ==
  [order |-> h.maps[m].order,
   sets |-> [i \in MapKeys(h, m) |-> h.sets[MapGet(h, m, i)]]]

(* ------------------------------ update --------------------------------- *)
\* lines 94-98: updatedBuckets = new Map(); every entry of buckets is copied,
\* in insertion order, from position k on
RECURSIVE CopyEntries(_, _, _, _)
CopyEntries(h, buckets, updatedBuckets, k) ==
  IF k > MapSize(h, buckets) THEN h
  ELSE LET index == h.maps[buckets].order[k]
           c == CopySet(h, MapGet(h, buckets, index))
       IN CopyEntries(MapSet(c.heap, updatedBuckets, index, c.ref),
                      buckets, updatedBuckets, k + 1)

\* lines 100-107: the first entry, in insertion order, whose set has the card
\* (-1 when there is none)
CurrentBucketOf(h, m, card) ==
  LET ord == h.maps[m].order
      hits == {k \in 1..Len(ord) : SetHas(h, MapGet(h, m, ord[k]), card)}
  IN IF hits = {} THEN -1 ELSE ord[Min(hits)]

\* lines 109-116; the comparisons are ===, so a difficulty that is neither
\* the number 0 nor the number 1 takes the last branch
NewBucketForSkip(currentBucket, difficulty) ==
  IF difficulty = Wrong THEN 0
  ELSE IF difficulty = Hard THEN Max({0, currentBucket - 1})
  ELSE currentBucket + 2
NewBucketForNoFloor(currentBucket, difficulty) ==
  IF difficulty = Wrong THEN 0
  ELSE IF difficulty = Hard THEN currentBucket - 1
  ELSE currentBucket + 1
NewBucketFor(currentBucket, difficulty) ==
  IF difficulty = Wrong THEN 0
  ELSE IF difficulty = Hard THEN Max({0, currentBucket - 1})
  ELSE currentBucket + 1

\* update(buckets, card, difficulty): returns the heap after the call and the
\* Map object returned
update(h, buckets, card, difficulty) ==
  LET u == NewMap(h)
      h1 == CopyEntries(u.heap, buckets, u.ref, 1)
      currentBucket == CurrentBucketOf(h1, u.ref, card)
      h2 == IF currentBucket = -1 THEN h1
            ELSE SetDelete(h1, MapGet(h1, u.ref, currentBucket), card)
      newBucket == NewBucketFor(currentBucket, difficulty)
      s == NewSet(h2, {})
      h3 == IF newBucket < RetireThreshold
              THEN (IF MapHas(h2, u.ref, newBucket) THEN h2
                    ELSE MapSet(s.heap, u.ref, newBucket, s.ref))
              ELSE h2
      h4 == IF newBucket < RetireThreshold
              THEN SetAdd(h3, MapGet(h3, u.ref, newBucket), card)
              ELSE h3
  IN [heap |-> h4, ref |-> u.ref]

(* ------------------------------- state --------------------------------- *)
VARIABLES
  initialCards,     \* state.ts: the deck, fixed at start-up
  heap,             \* the Map and Set objects
  currentBuckets,   \* state.ts: the Map object currentBuckets refers to
  practiceHistory,  \* state.ts: PracticeRecord[]
  currentDay,       \* state.ts
  res,              \* the request being handled and its response, NoRes
                    \* between two requests
  handler,          \* the activation of the /api/update handler that is
                    \* between two of its statements, NoHandler if none
  view,             \* PracticeView: the values of its useState hooks
  pending           \* PracticeView: its calls that await a response

vars ==
  <<initialCards, heap, currentBuckets, practiceHistory, currentDay, res,
    handler, view, pending>>

\* getBuckets(), as a value
Buckets == Deref(heap, currentBuckets)

(* --------------------------- state accessors --------------------------- *)
\* findCardBucket: i runs from 0 to currentBuckets.size - 1
findCardBucketOrZero(h, m, cardToFind) ==
  LET hits == {i \in 0..(MapSize(h, m) - 1) :
                 MapHas(h, m, i) /\ SetHas(h, MapGet(h, m, i), cardToFind)}
  IN IF hits = {} THEN 0 ELSE Min(hits)
findCardBucket(h, m, cardToFind) ==
  LET hits == {i \in 0..(MapSize(h, m) - 1) :
                 MapHas(h, m, i) /\ SetHas(h, MapGet(h, m, i), cardToFind)}
  IN IF hits = {} THEN undefined ELSE Min(hits)

\* isBucketMapEmpty: get(i)?.size == 0 is false for an absent key
isBucketMapEmpty(h, m) ==
  \A i \in 0..3 : MapHas(h, m, i) /\ h.sets[MapGet(h, m, i)] = {}

\* a request names a card by front and back: the pair of a card, a pair no
\* card has, or an empty or absent field
NoSuchCard == 0
MissingField == -1
RequestCards == Cards \cup {NoSuchCard, MissingField}

\* findCard: the card of initialCards with that front and back, if any
findCardAny(deck, c) == c
findCard(deck, c) == IF c \in deck THEN c ELSE undefined

\* a record of the history (the timestamp, which nothing reads, is left out)
RecordSwapped(card, difficulty, previousBucket, newBucket) ==
  [card |-> card, difficulty |-> difficulty,
   previousBucket |-> newBucket, newBucket |-> previousBucket]
Record(card, difficulty, previousBucket, newBucket) ==
  [card |-> card, difficulty |-> difficulty,
   previousBucket |-> previousBucket, newBucket |-> newBucket]

\* addHistoryRecord: practiceHistory.push(record)
addHistoryRecordTwice(history, record) == Append(Append(history, record), record)
addHistoryRecordFirst(history, record) == <<record>> \o history
addHistoryRecord(history, record) == Append(history, record)

(* ------------------------- scheduler functions ------------------------- *)
\* toBucketSets: the array is a function on 0..maxBucket; an index that is
\* no key keeps the empty set it was created with
toBucketSets(b) ==
  IF DOMAIN b.sets = {} THEN << >>
  ELSE [i \in 0..Max(DOMAIN b.sets) |->
          IF i \in DOMAIN b.sets THEN b.sets[i] ELSE {}]

practiceLate(buckets, day) ==
  UNION {buckets[i] : i \in {j \in DOMAIN buckets : day % (2 ^ (j + 1)) = 0}}
practice(buckets, day) ==
  UNION {buckets[i] : i \in {j \in DOMAIN buckets : day % (2 ^ j) = 0}}

\* a card's hint (every card of initialCards has its own, non-empty one)
NoHintAvailable == 0
getHint(card) == IF card \in Cards THEN card ELSE NoHintAvailable

\* computeProgress; accuracyRate is kept as the fraction it is computed from
SumSizesCountsKeys(b, keys) == Cardinality(keys)
RECURSIVE SumSizes(_, _)
SumSizes(b, keys) ==
  IF keys = {} THEN 0
  ELSE LET i == Min(keys)
       IN Cardinality(b.sets[i]) + SumSizes(b, keys \ {i})

\* lines 190-196: the records whose difficulty is Easy or Hard
CorrectAnswersEasyOnly(history) ==
  Cardinality({k \in DOMAIN history : history[k].difficulty = Easy})
CorrectAnswers(history) ==
  Cardinality({k \in DOMAIN history :
                 history[k].difficulty = Easy \/ history[k].difficulty = Hard})

\* lines 187-188: the records taken from bucket i
ReviewsFromNew(history, i) ==
  Cardinality({k \in DOMAIN history : history[k].newBucket = i})
ReviewsFrom(history, i) ==
  Cardinality({k \in DOMAIN history : history[k].previousBucket = i})

computeProgress(b, history) ==
  LET keys == DOMAIN b.sets
      sources == {history[k].previousBucket : k \in DOMAIN history}
  IN [totalFlashcards |-> SumSizes(b, keys),
      bucketDistribution |-> [i \in keys |-> Cardinality(b.sets[i])],
      accuracyRate |-> IF Len(history) = 0 THEN [num |-> 0, den |-> 1]
                       ELSE [num |-> CorrectAnswers(history),
                             den |-> Len(history)],
      reviewsPerBucket |->
        [i \in keys \cup sources |-> ReviewsFrom(history, i)]]

(* ------------------------------ responses ------------------------------ *)
NoStats ==
  [totalFlashcards |-> 0, bucketDistribution |-> << >>,
   accuracyRate |-> [num |-> 0, den |-> 1], reviewsPerBucket |-> << >>]

\* The request being handled and its response.  op: the route, or the
\* function called directly; card, difficulty: the arguments of the request
\* or call; status: the HTTP status the client receives; sends: how many
\* times the handler called res.json; cards, day, retired, hint, stats: the
\* response body; before, result: the buckets that held the card when a
\* function was called directly, and what the function returned.
NoRes ==
  [op |-> "none", status |-> 0, sends |-> 0, cards |-> {}, day |-> 0,
   retired |-> FALSE, hint |-> NoHintAvailable, stats |-> NoStats,
   card |-> NoSuchCard, difficulty |-> "undefined", before |-> {},
   result |-> undefined]

\* no /api/update handler is between two of its statements
NoHandler ==
  [pc |-> "none", card |-> NoSuchCard, difficulty |-> "undefined",
   buckets |-> 0, previousBucket |-> undefined]

\* PracticeView: the initial values of its useState hooks; a string state
\* that is null is "null"
NoHint == -1
InitialView ==
  [practiceCards |-> << >>, currentCardIndex |-> 0, showBack |-> FALSE,
   isLoading |-> TRUE, error |-> "null", day |-> 0,
   sessionFinished |-> FALSE, retiredBucket |-> FALSE, hint |-> NoHint,
   loadingHint |-> FALSE, hintError |-> "null"]

\* PracticeView: no call awaits a response and the mount effect has not run.
\* answers[last]: the handleAnswer calls that await submitAnswer, by the
\* value isLastCard will have; hints: the cards handleGetHint awaits a hint
\* for
NoPending ==
  [mounted |-> FALSE, loads |-> 0, nextDays |-> 0,
   answers |-> [last \in BOOLEAN |-> 0], hints |-> << >>]

\* the indices of the buckets of assignment b that hold the card
BucketsOf(b, card) == {i \in DOMAIN b.sets : card \in b.sets[i]}

(* ------------------------- the initial state --------------------------- *)
\* currentBuckets = new Map(); currentBuckets.set(0, new Set(initialCards));
\* the deck is any non-empty one of at most NumCards cards
Init ==
  /\ initialCards \in {1..n : n \in 1..NumCards}
  /\ LET m == NewMap(EmptyHeap)
         s == NewSet(m.heap, initialCards)
     IN /\ heap = MapSet(s.heap, m.ref, 0, s.ref)
        /\ currentBuckets = m.ref
  /\ practiceHistory = << >>
  /\ currentDay = 0
  /\ res = NoRes
  /\ handler = NoHandler
  /\ view = InitialView
  /\ pending = NoPending

(* --------------------------- request handlers -------------------------- *)
\* the difficulty of a request body: a number of the enum, another number,
\* or no difficulty at all
RequestDifficulties == AnswerDifficulty \cup {"num_3", "undefined"}

\* POST /api/update
PostUpdate(cardKey, difficulty) ==
  LET reply == [NoRes EXCEPT !.op = "update", !.sends = 1, !.card = cardKey,
                             !.difficulty = difficulty]
      card == findCard(initialCards, cardKey)
      previousBucket == findCardBucket(heap, currentBuckets, card)
      u == update(heap, currentBuckets, card, difficulty)
      newBucket == findCardBucket(u.heap, u.ref, card)
      record == Record(card, difficulty, previousBucket,
                       IF newBucket # undefined THEN newBucket ELSE -1)
  IN /\ res = NoRes
     /\ UNCHANGED <<view, pending, initialCards, handler, currentDay>>
     /\ IF cardKey = MissingField \/ difficulty = "undefined"
           \/ difficulty \notin EnumKeys
          THEN /\ res' = [reply EXCEPT !.status = 400]
               /\ UNCHANGED <<heap, currentBuckets, practiceHistory>>
        ELSE IF card = undefined
          THEN /\ res' = [reply EXCEPT !.status = 404]
               /\ UNCHANGED <<heap, currentBuckets, practiceHistory>>
        ELSE IF previousBucket = undefined
          THEN /\ res' = [reply EXCEPT !.status = 500]
               /\ UNCHANGED <<heap, currentBuckets, practiceHistory>>
        ELSE /\ \/ Len(practiceHistory) < MaxHistory
                \/ BucketsOf(Buckets, card) = {}
             /\ heap' = u.heap
             /\ currentBuckets' = u.ref
             /\ practiceHistory' = addHistoryRecord(practiceHistory, record)
             /\ res' = [reply EXCEPT !.status = 200]

GetPracticeNextDay ==
  LET day == currentDay
      cardsToPractice == practice(toBucketSets(Buckets), day)
  IN /\ res = NoRes \/ res.op = "practice"
     /\ res' = [NoRes EXCEPT !.op = "practice", !.status = 200,
                             !.sends = 1, !.day = day,
                             !.cards = cardsToPractice]
     /\ currentDay' = currentDay + 1
     /\ UNCHANGED <<view, pending, initialCards, handler, heap, currentBuckets,
                    practiceHistory>>

\* GET /api/practice: when isBucketMapEmpty() the handler sends the retired
\* response and goes on; its second res.json and the one of the catch block
\* both throw, as the response has been sent. A practice request may follow
\* a practice request directly: res then holds the earlier response until
\* the later one replaces it
GetPractice ==
  LET day == currentDay
      bucketMapAsArray == toBucketSets(Buckets)
      cardsToPractice == practice(bucketMapAsArray, day)
  IN /\ res = NoRes \/ res.op = "practice"
     /\ res' = IF isBucketMapEmpty(heap, currentBuckets)
                 THEN [NoRes EXCEPT !.op = "practice", !.status = 200,
                                    !.sends = 3, !.day = day, !.retired = TRUE]
                 ELSE [NoRes EXCEPT !.op = "practice", !.status = 200,
                                    !.sends = 1, !.day = day,
                                    !.cards = cardsToPractice]
     /\ UNCHANGED <<view, pending, initialCards, handler, heap, currentBuckets,
                    practiceHistory, currentDay>>

\* GET /api/hint
GetHint(cardKey) ==
  LET reply == [NoRes EXCEPT !.op = "hint", !.sends = 1, !.card = cardKey]
      card == findCard(initialCards, cardKey)
  IN /\ res = NoRes
     /\ res' = IF cardKey = MissingField THEN [reply EXCEPT !.status = 400]
               ELSE IF card = undefined THEN [reply EXCEPT !.status = 404]
               ELSE [reply EXCEPT !.status = 200, !.hint = getHint(card)]
     /\ UNCHANGED <<view, pending, initialCards, handler, heap, currentBuckets,
                    practiceHistory, currentDay>>

\* GET /api/progress
GetProgress ==
  /\ res = NoRes
  /\ res' = [NoRes EXCEPT !.op = "progress", !.status = 200, !.sends = 1,
                          !.stats = computeProgress(Buckets, practiceHistory)]
  /\ UNCHANGED <<view, pending, initialCards, handler, heap, currentBuckets,
                 practiceHistory, currentDay>>

\* incrementDay: currentDay += 1
incrementDayTwice(day) == day + 2
incrementDay(day) == day + 1

\* POST /api/day/next: incrementDay(), then getCurrentDay() is reported
PostDayNext ==
  /\ res = NoRes
  /\ currentDay < MaxDay
  /\ currentDay' = incrementDay(currentDay)
  /\ res' = [NoRes EXCEPT !.op = "day/next", !.status = 200, !.sends = 1,
                          !.day = currentDay']
  /\ UNCHANGED <<view, pending, initialCards, handler, heap, currentBuckets, practiceHistory>>

\* the handler has returned and its response is out; the handlers are
\* synchronous, so the next request is handled after this one
EndRequest ==
  /\ res # NoRes
  /\ res' = NoRes
  /\ UNCHANGED <<view, pending, initialCards, handler, heap, currentBuckets,
                 practiceHistory, currentDay>>

Next ==
  \/ \E c \in RequestCards, d \in RequestDifficulties : PostUpdate(c, d)
  \/ GetPractice
  \/ \E c \in RequestCards : GetHint(c)
  \/ GetProgress
  \/ PostDayNext
  \/ EndRequest

Spec == Init /\ [][Next]_vars

(* ------------------- the functions on their own ------------------------ *)
\* A valid assignment: the keys are any indices up to MaxInputBucket, every
\* card is in the bucket place[card] or, for place[card] = -1, in none.  The
\* Map is filled in ascending order of the keys.
Rank(keys, i) == Cardinality({x \in keys : x <= i})

AssignmentHeap(keys, place) ==
  [sets |-> [j \in 1..Cardinality(keys) |->
               {c \in DOMAIN place :
                  place[c] \in keys /\ Rank(keys, place[c]) = j}],
   maps |-> << [order |-> [j \in 1..Cardinality(keys) |->
                             CHOOSE i \in keys : Rank(keys, i) = j],
                ref |-> [i \in keys |-> Rank(keys, i)]] >>]

InitFn ==
  /\ initialCards = Cards
  /\ \E keys \in SUBSET (0..MaxInputBucket) :
       \E place \in [Cards -> keys \cup {-1}] :
         heap = AssignmentHeap(keys, place)
  /\ currentBuckets = 1
  /\ practiceHistory = << >>
  /\ currentDay = 0
  /\ res = NoRes
  /\ handler = NoHandler
  /\ view = InitialView
  /\ pending = NoPending

\* update(buckets, card, difficulty) on the assignment drawn; the Map it
\* returns becomes the current one
CallUpdate(card, difficulty) ==
  LET u == update(heap, currentBuckets, card, difficulty)
  IN /\ res = NoRes
     /\ heap' = u.heap
     /\ currentBuckets' = u.ref
     /\ res' = [NoRes EXCEPT !.op = "call_update", !.card = card,
                             !.difficulty = difficulty,
                             !.before = BucketsOf(Buckets, card)]
     /\ UNCHANGED <<view, pending, initialCards, handler, practiceHistory, currentDay>>

\* practice(toBucketSets(buckets), day) on the assignment drawn
CallPractice(day) ==
  /\ res = NoRes
  /\ res' = [NoRes EXCEPT !.op = "call_practice", !.day = day,
                          !.cards = practice(toBucketSets(Buckets), day)]
  /\ UNCHANGED <<view, pending, initialCards, handler, heap, currentBuckets,
                 practiceHistory, currentDay>>

\* findCardBucket(card) with the assignment drawn as currentBuckets
CallFindCardBucket(card) ==
  /\ res = NoRes
  /\ res' = [NoRes EXCEPT !.op = "call_findCardBucket", !.card = card,
                          !.before = BucketsOf(Buckets, card),
                          !.result = findCardBucket(heap, currentBuckets, card)]
  /\ UNCHANGED <<view, pending, initialCards, handler, heap, currentBuckets,
                 practiceHistory, currentDay>>

\* the functions called directly, and the two read-only handlers run with
\* the assignment drawn as currentBuckets
NextFn ==
  \/ \E c \in Cards, d \in AnswerDifficulty : CallUpdate(c, d)
  \/ \E day \in 0..MaxInputDay : CallPractice(day)
  \/ \E c \in Cards : CallFindCardBucket(c)
  \/ GetPractice
  \/ GetProgress

SpecFn == InitFn /\ [][NextFn]_vars

(***************************************************************************)
(* The /api/update handler statement by statement (server.ts:104-184), for *)
(* requests that arrive while a review submission is being handled.  The   *)
(* callback is synchronous: between its statements there is no await, no   *)
(* callback and no timer, so the event loop starts no other handler at any *)
(* of its positions.                                                       *)
(***************************************************************************)

\* whether the event loop may run another handler at position pc
YieldsAfterRead(pc) == pc = "read"
Yields(pc) == FALSE

EventLoopFree == handler = NoHandler \/ Yields(handler.pc)

\* lines 108-143 of a request that passes the checks: the fields, findCard,
\* buckets = getBuckets(), previousBucket = findCardBucket(card)
BeginUpdate(cardKey, difficulty) ==
  LET card == findCard(initialCards, cardKey)
      previousBucket == findCardBucket(heap, currentBuckets, card)
  IN /\ res = NoRes
     /\ handler = NoHandler
     /\ cardKey # MissingField
     /\ difficulty \in EnumKeys
     /\ card # undefined
     /\ previousBucket # undefined
     /\ Len(practiceHistory) < MaxHistory
     /\ handler' = [pc |-> "read", card |-> card, difficulty |-> difficulty,
                    buckets |-> currentBuckets,
                    previousBucket |-> previousBucket]
     /\ UNCHANGED <<view, pending, initialCards, heap, currentBuckets, practiceHistory,
                    currentDay, res>>

\* line 145: setBuckets(update(buckets, card, validDifficulty))
WriteBuckets ==
  LET u == update(heap, handler.buckets, handler.card, handler.difficulty)
  IN /\ handler.pc = "read"
     /\ heap' = u.heap
     /\ currentBuckets' = u.ref
     /\ handler' = [handler EXCEPT !.pc = "written"]
     /\ UNCHANGED <<view, pending, initialCards, practiceHistory, currentDay, res>>

\* lines 147-177: newBucket = findCardBucket(card), the record,
\* addHistoryRecord(record), the 200 response
AppendRecord ==
  LET newBucket == findCardBucket(heap, currentBuckets, handler.card)
      record == Record(handler.card, handler.difficulty,
                       handler.previousBucket,
                       IF newBucket # undefined THEN newBucket ELSE -1)
  IN /\ handler.pc = "written"
     /\ res = NoRes
     /\ practiceHistory' = addHistoryRecord(practiceHistory, record)
     /\ res' = [NoRes EXCEPT !.op = "update", !.status = 200, !.sends = 1,
                             !.card = handler.card,
                             !.difficulty = handler.difficulty]
     /\ handler' = NoHandler
     /\ UNCHANGED <<view, pending, initialCards, heap, currentBuckets, currentDay>>

\* one review submission handled statement by statement, and the review
\* submissions and day advances that arrive meanwhile, each handled as soon
\* as the event loop is free
NextSteps ==
  \/ \E c \in Cards, d \in AnswerDifficulty : BeginUpdate(c, d)
  \/ WriteBuckets
  \/ AppendRecord
  \/ EventLoopFree /\ \E c \in Cards, d \in AnswerDifficulty : PostUpdate(c, d)
  \/ EventLoopFree /\ PostDayNext
  \/ EndRequest

SpecSteps == Init /\ [][NextSteps]_vars

(***************************************************************************)
(* PracticeView (part_002): the values of its useState hooks, the handlers *)
(* up to their await, and the continuations that run when the awaited      *)
(* request is answered or fails.  The server's answers are any well-formed *)
(* ones: a list of distinct cards of the deck, a day, the hint of the card *)
(* asked for.                                                              *)
(***************************************************************************)
serverVars ==
  <<initialCards, heap, currentBuckets, practiceHistory, currentDay, res,
    handler>>

LoadError ==
  "Failed to load practice cards. Please check the connection or try again later."
SubmitError == "Failed to submit answer. Please try again."
AdvanceError == "Failed to advance to the next day. Please try again."
HintError == "Could not load hint."

\* lines 148-206: the branch of the render function that is taken
Screen(v) ==
  IF v.isLoading THEN "loading"
  ELSE IF v.error # "null" THEN "error"
  ELSE IF v.retiredBucket THEN "retired"
  ELSE IF v.sessionFinished THEN "finished"
  ELSE IF Len(v.practiceCards) = 0 THEN "empty"
  ELSE IF v.currentCardIndex >= Len(v.practiceCards) THEN "outOfBounds"
  ELSE "card"

\* line 206: practiceCards[currentCardIndex] (the array starts at 0)
currentCard(v) == v.practiceCards[v.currentCardIndex + 1]

\* lines 221 and 231: the hint text is on the screen
HintShown(v) == Screen(v) = "card" /\ ~v.showBack /\ v.hint # NoHint

\* the card lists of a practice session: distinct cards of the deck
PracticeLists ==
  {cards \in UNION {[1..n -> initialCards] :
                      n \in 0..Cardinality(initialCards)} :
     \A j, k \in DOMAIN cards : j # k => cards[j] # cards[k]}

\* lines 35-43: loadPracticeCards up to its await
loadPracticeCards(v) ==
  [v EXCEPT !.isLoading = TRUE, !.error = "null", !.sessionFinished = FALSE,
            !.currentCardIndex = 0, !.showBack = FALSE]

\* lines 71-73: the effect of the first render
Mount ==
  /\ ~pending.mounted
  /\ view' = loadPracticeCards(view)
  /\ pending' = [pending EXCEPT !.mounted = TRUE, !.loads = @ + 1]
  /\ UNCHANGED serverVars

\* lines 44-57 and 64-67: fetchPracticeCards has returned result
fetchPracticeCardsResolved(cards, day, retired) ==
  /\ pending.loads > 0
  /\ retired => cards = << >>
  /\ view' = [view EXCEPT !.practiceCards = cards, !.day = day,
                          !.retiredBucket = @ \/ retired,
                          !.sessionFinished = @ \/ cards = << >>,
                          !.isLoading = FALSE]
  /\ pending' = [pending EXCEPT !.loads = @ - 1]
  /\ UNCHANGED serverVars

\* lines 58-67: fetchPracticeCards has thrown
fetchPracticeCardsRejected ==
  /\ pending.loads > 0
  /\ view' = [view EXCEPT !.error = LoadError, !.practiceCards = << >>,
                          !.isLoading = FALSE]
  /\ pending' = [pending EXCEPT !.loads = @ - 1]
  /\ UNCHANGED serverVars

\* lines 76-79, the button of line 239
handleShowBack ==
  /\ Screen(view) = "card"
  /\ ~view.showBack
  /\ view' = [view EXCEPT !.showBack = TRUE]
  /\ UNCHANGED <<pending, serverVars>>

\* lines 81-95, the buttons of lines 242-259: handleAnswer up to its await;
\* the continuation reads currentCardIndex and practiceCards of this render,
\* so isLastCard is fixed here. The difficulty goes to the server only
handleAnswer ==
  LET isLastCard ==
        view.currentCardIndex >= Len(view.practiceCards) - 1
  IN /\ Screen(view) = "card"
     /\ view.showBack
     /\ pending.answers[TRUE] + pending.answers[FALSE] < MaxPendingAnswers
     /\ view' = [view EXCEPT !.error = "null"]
     /\ pending' = [pending EXCEPT !.answers[isLastCard] = @ + 1]
     /\ UNCHANGED serverVars

\* lines 96-109: submitAnswer has returned
submitAnswerResolved(isLastCard) ==
  /\ pending.answers[isLastCard] > 0
  /\ view' = IF isLastCard
               THEN [view EXCEPT !.sessionFinished = TRUE]
             ELSE [view EXCEPT !.currentCardIndex = @ + 1,
                               !.showBack = FALSE, !.hint = NoHint]
  /\ pending' = [pending EXCEPT !.answers[isLastCard] = @ - 1]
  /\ UNCHANGED serverVars

\* lines 110-113: submitAnswer has thrown
submitAnswerRejected(isLastCard) ==
  /\ pending.answers[isLastCard] > 0
  /\ view' = [view EXCEPT !.error = SubmitError]
  /\ pending' = [pending EXCEPT !.answers[isLastCard] = @ - 1]
  /\ UNCHANGED serverVars

\* lines 116-121, the buttons of lines 178 and 190
handleNextDay ==
  /\ Screen(view) \in {"finished", "empty"}
  /\ view' = [view EXCEPT !.error = "null", !.isLoading = TRUE]
  /\ pending' = [pending EXCEPT !.nextDays = @ + 1]
  /\ UNCHANGED serverVars

\* lines 122-123: advanceDay has returned, loadPracticeCards() is called
advanceDayResolved ==
  /\ pending.nextDays > 0
  /\ view' = loadPracticeCards(view)
  /\ pending' = [pending EXCEPT !.nextDays = @ - 1, !.loads = @ + 1]
  /\ UNCHANGED serverVars

\* lines 124-127: advanceDay has thrown
advanceDayRejected ==
  /\ pending.nextDays > 0
  /\ view' = [view EXCEPT !.error = AdvanceError]
  /\ pending' = [pending EXCEPT !.nextDays = @ - 1]
  /\ UNCHANGED serverVars

\* lines 130-136, the button of lines 223-229 (disabled while loadingHint)
handleGetHint ==
  /\ Screen(view) = "card"
  /\ ~view.showBack
  /\ ~view.loadingHint
  /\ view' = [view EXCEPT !.loadingHint = TRUE, !.hintError = "null",
                          !.hint = NoHint]
  /\ pending' = [pending EXCEPT !.hints = Append(@, currentCard(view))]
  /\ UNCHANGED serverVars

\* the sequence without its k-th element
Without(seq, k) ==
  [j \in 1..(Len(seq) - 1) |-> IF j < k THEN seq[j] ELSE seq[j + 1]]

\* lines 137 and 141-143: fetchHint has returned the hint of the card asked
\* for
fetchHintResolved(k) ==
  /\ k \in DOMAIN pending.hints
  /\ view' = [view EXCEPT !.hint = getHint(pending.hints[k]),
                          !.loadingHint = FALSE]
  /\ pending' = [pending EXCEPT !.hints = Without(@, k)]
  /\ UNCHANGED serverVars

\* lines 138-143: fetchHint has thrown
fetchHintRejected(k) ==
  /\ k \in DOMAIN pending.hints
  /\ view' = [view EXCEPT !.hintError = HintError, !.loadingHint = FALSE]
  /\ pending' = [pending EXCEPT !.hints = Without(@, k)]
  /\ UNCHANGED serverVars

NextView ==
  \/ Mount
  \/ \E cards \in PracticeLists, day \in 0..MaxDay, retired \in BOOLEAN :
       fetchPracticeCardsResolved(cards, day, retired)
  \/ fetchPracticeCardsRejected
  \/ handleShowBack
  \/ handleAnswer
  \/ \E isLastCard \in BOOLEAN : submitAnswerResolved(isLastCard)
  \/ \E isLastCard \in BOOLEAN : submitAnswerRejected(isLastCard)
  \/ handleNextDay
  \/ advanceDayResolved
  \/ advanceDayRejected
  \/ handleGetHint
  \/ \E k \in DOMAIN pending.hints : fetchHintResolved(k)
  \/ \E k \in DOMAIN pending.hints : fetchHintRejected(k)

SpecView == Init /\ [][NextView]_vars

(* ------------------------------- claims -------------------------------- *)
\* C1: from the initial state, whatever reviews and day advances have been
\* made, every card of the deck is in no bucket or in exactly one bucket.
C1_AtMostOneBucket ==
  \A c \in initialCards : Cardinality(BucketsOf(Buckets, c)) <= 1

\* reviews and a day advance have been made; one card is retired and another
\* is in exactly one bucket
C1_Witness ==
  /\ Len(practiceHistory) = 4 /\ currentDay = 1
  /\ \E c, d \in initialCards :
       /\ BucketsOf(Buckets, c) = {}
       /\ Cardinality(BucketsOf(Buckets, d)) = 1

\* C2: practice(toBucketSets(assignment), day) is exactly the set of the cards
\* whose bucket index i satisfies day mod 2^i = 0, for every valid assignment
\* (empty, with empty buckets, with unlisted indices) and every day.
C2_PracticeSelectsDue ==
  res.op = "call_practice" =>
    res.cards = {c \in Cards :
                   \E i \in DOMAIN Buckets.sets :
                     c \in Buckets.sets[i] /\ res.day % (2 ^ i) = 0}

\* indices 0 and 2 are not listed; on day 2 the card of bucket 1 is due and
\* the card of bucket 3 is not
C2_Witness ==
  /\ res.op = "call_practice" /\ res.day = 2
  /\ DOMAIN Buckets.sets = {1, 3}
  /\ \E c, d \in Cards :
       /\ c \in Buckets.sets[1] /\ d \in Buckets.sets[3]
       /\ res.cards = {c}

\* C3: update with Wrong puts a card of any bucket c into bucket 0; update
\* with Hard puts a card of bucket c, c one of the indices 0..4 an
\* assignment uses, into bucket max(0, c - 1).
C3_WrongAndHard ==
  \A c \in 0..MaxInputBucket :
    (res.op = "call_update" /\ res.before = {c}) =>
      /\ res.difficulty = Wrong => BucketsOf(Buckets, res.card) = {0}
      /\ (res.difficulty = Hard /\ c <= 4) =>
           BucketsOf(Buckets, res.card) = {IF c = 0 THEN 0 ELSE c - 1}

\* a card of bucket 0 answered Hard is in bucket 0
C3_Witness ==
  /\ res.op = "call_update" /\ res.difficulty = Hard /\ res.before = {0}
  /\ BucketsOf(Buckets, res.card) = {0}

\* C4: update with Easy puts a card of bucket c into bucket c + 1 whenever
\* c + 1 < 5; a card of bucket 3 is in bucket 4 afterwards.
C4_EasyPromotes ==
  \A c \in 0..MaxInputBucket :
    (res.op = "call_update" /\ res.difficulty = Easy /\ res.before = {c}
       /\ c + 1 < 5) =>
      BucketsOf(Buckets, res.card) = {c + 1}

\* C5: update with Easy on a card of bucket 4 retires it: the card is in no
\* bucket of the assignment returned.
C5_EasyFromFourRetires ==
  (res.op = "call_update" /\ res.difficulty = Easy /\ res.before = {4}) =>
    BucketsOf(Buckets, res.card) = {}

C5_Witness ==
  /\ res.op = "call_update" /\ res.difficulty = Easy /\ res.before = {4}
  /\ BucketsOf(Buckets, res.card) = {}
  /\ BucketsOf(Deref(heap, 1), res.card) = {4}

\* C6: update on a card that no bucket of the assignment holds never returns
\* an assignment in which the card is in a bucket.
C6_UnplacedCardNotPlaced ==
  (res.op = "call_update" /\ res.before = {}) =>
    BucketsOf(Buckets, res.card) = {}

\* C7: update is copy-on-write: no step changes the keys, their order or the
\* members of any Map object that exists before the step; the assignment
\* passed to update is the same after the call.
C7_CopyOnWrite ==
  [][\A m \in 1..Len(heap.maps) : Deref(heap', m) = Deref(heap, m)]_vars

\* update has moved a card: the Map returned differs from the Map passed in
C7_Witness ==
  /\ res.op = "call_update" /\ res.before # {}
  /\ currentBuckets = 2
  /\ Deref(heap, 1) # Deref(heap, 2)
  /\ BucketsOf(Deref(heap, 1), res.card) = res.before

\* C8: a review submission answered 200 appends exactly one record to the
\* history, and one answered 400, 404 or 500 appends none.
C8_OneRecordPerSuccess ==
  [][/\ (res'.op = "update" /\ res'.status = 200) =>
          /\ Len(practiceHistory') = Len(practiceHistory) + 1
          /\ SubSeq(practiceHistory', 1, Len(practiceHistory)) = practiceHistory
     /\ (res'.op = "update" /\ res'.status # 200) =>
          /\ res'.status \in {400, 404, 500}
          /\ practiceHistory' = practiceHistory]_vars

\* four submissions have succeeded and one, for the card they retired, has
\* been rejected
C8_Witness ==
  /\ res.op = "update" /\ res.status = 500
  /\ Len(practiceHistory) = 4

\* C9: the record of a successful submission has previousBucket = the bucket
\* of the card before the submission and newBucket = the bucket of the card
\* after it, or -1 exactly when the card is in no bucket after it.
C9_RecordMatchesTransition ==
  [][(res'.op = "update" /\ res'.status = 200) =>
       LET r == practiceHistory'[Len(practiceHistory')]
       IN /\ r.card = res'.card
          /\ BucketsOf(Buckets, r.card) = {r.previousBucket}
          /\ IF BucketsOf(Buckets', r.card) = {}
               THEN r.newBucket = -1
               ELSE BucketsOf(Buckets', r.card) = {r.newBucket}]_vars

\* the last submission has retired its card
C9_Witness ==
  /\ res.op = "update" /\ res.status = 200
  /\ practiceHistory # << >>
  /\ LET r == practiceHistory[Len(practiceHistory)]
     IN /\ r.previousBucket = 3 /\ r.newBucket = -1
        /\ BucketsOf(Buckets, r.card) = {}

\* C10: the history is append-only: in every step, whatever the request, the
\* history before the step is a prefix of the history after it.
C10_AppendOnly ==
  [][/\ Len(practiceHistory') >= Len(practiceHistory)
     /\ SubSeq(practiceHistory', 1, Len(practiceHistory)) = practiceHistory]_vars

\* a progress request is answered with two different records in the history
C10_Witness ==
  /\ res.op = "progress"
  /\ Len(practiceHistory) >= 2
  /\ practiceHistory[1] # practiceHistory[2]

\* C11: the day starts at 0; only POST /api/day/next changes it; each such
\* request raises it by exactly 1 and reports the raised value; it never
\* decreases; the request leaves the buckets and the history as they were
C11_DayCounter ==
  /\ currentDay = 0
  /\ [][/\ currentDay' >= currentDay
        /\ currentDay' # currentDay => res'.op = "day/next"
        /\ res'.op = "day/next" =>
             /\ currentDay' = currentDay + 1
             /\ res'.day = currentDay + 1
             /\ res'.status = 200
             /\ Deref(heap', currentBuckets') = Buckets
             /\ currentBuckets' = currentBuckets
             /\ heap' = heap
             /\ practiceHistory' = practiceHistory]_vars

C11_Witness ==
  /\ res.op = "day/next"
  /\ res.day = 1
  /\ currentDay = 1
  /\ Len(practiceHistory) = 2
  /\ \E c \in initialCards : BucketsOf(Buckets, c) = {2}

\* C12: GET /api/practice reports retired = true exactly when no bucket 0..4
\* holds a card, whether those buckets are present and empty or absent
C12_RetiredFlag ==
  res.op = "practice" =>
    (res.retired <=>
       \A i \in (DOMAIN Buckets.sets) \cap (0..4) : Buckets.sets[i] = {})

\* C13: a card of the deck that is in no bucket (retired) is in no bucket
\* after any request, and is not among the cards a practice request returns
C13_RetirementPermanent ==
  [][\A c \in initialCards :
       BucketsOf(Buckets, c) = {} =>
         /\ BucketsOf(Deref(heap', currentBuckets'), c) = {}
         /\ res'.op = "practice" => c \notin res'.cards]_vars

C13_Witness ==
  /\ res.op = "update"
  /\ res.status = 500
  /\ res.difficulty = Wrong
  /\ currentDay = 1
  /\ res.card \in initialCards
  /\ BucketsOf(Buckets, res.card) = {}

\* C14: POST /api/update with a valid difficulty for a card of the deck
\* that is in no bucket is answered 500 and leaves the buckets, the history
\* and the day as they were
C14_UnbucketedCardRejected ==
  [][(/\ res'.op = "update"
      /\ res'.card \in initialCards
      /\ res'.difficulty \in EnumKeys
      /\ BucketsOf(Buckets, res'.card) = {})
     => /\ res'.status = 500
        /\ heap' = heap
        /\ currentBuckets' = currentBuckets
        /\ practiceHistory' = practiceHistory
        /\ currentDay' = currentDay]_vars

C14_Witness ==
  /\ res.op = "update"
  /\ res.status = 500
  /\ res.difficulty = Easy
  /\ res.card \in initialCards
  /\ BucketsOf(Buckets, res.card) = {}
  /\ Len(practiceHistory) = MaxHistory
  /\ \A k \in DOMAIN practiceHistory : practiceHistory[k].card = res.card

\* C15: for every assignment, contiguous or not, findCardBucket returns the
\* index of the one bucket that holds the card, and undefined exactly when
\* no bucket holds it
C15_FindsTheBucket ==
  res.op = "call_findCardBucket" =>
    IF res.before = {} THEN res.result = undefined
    ELSE res.before = {res.result}

\* the sum of the values of f over the set S
RECURSIVE SumOver(_, _)
SumOver(f, S) ==
  IF S = {} THEN 0
  ELSE LET i == CHOOSE x \in S : TRUE IN f[i] + SumOver(f, S \ {i})

\* C16: in the statistics, totalFlashcards is the number of cards that some
\* bucket holds (a retired card is not counted), bucketDistribution gives
\* for each bucket of the assignment, and for no other index, the number of
\* its cards, and totalFlashcards is the sum of those numbers
C16_TotalsMatchBuckets ==
  res.op = "progress" =>
    LET stats == res.stats
        dist == stats.bucketDistribution
    IN /\ stats.totalFlashcards =
            Cardinality({c \in Cards : BucketsOf(Buckets, c) # {}})
       /\ DOMAIN dist = DOMAIN Buckets.sets
       /\ \A i \in DOMAIN dist :
            dist[i] = Cardinality({c \in Cards : i \in BucketsOf(Buckets, c)})
       /\ stats.totalFlashcards = SumOver(dist, DOMAIN dist)

C16_Witness ==
  /\ res.op = "progress"
  /\ res.stats.totalFlashcards = 1
  /\ DOMAIN res.stats.bucketDistribution = {0, 2, 5}
  /\ res.stats.bucketDistribution[2] = 1
  /\ \E c \in Cards : BucketsOf(Buckets, c) = {}

\* the records of history h answered Hard or Easy, counted one at a time
RECURSIVE CountCorrect(_)
CountCorrect(h) ==
  IF h = << >> THEN 0
  ELSE (IF Head(h).difficulty \in {Hard, Easy} THEN 1 ELSE 0)
       + CountCorrect(Tail(h))

\* C17: accuracyRate is the number of history records answered Hard or Easy
\* divided by the number of records, and 0 for an empty history; the number
\* of correct records lies between 0 and the length of the history
C17_AccuracyRate ==
  res.op = "progress" =>
    LET rate == res.stats.accuracyRate
        n == Len(practiceHistory)
        correct == CountCorrect(practiceHistory)
    IN /\ 0 <= correct /\ correct <= n
       /\ rate.den > 0
       /\ IF n = 0 THEN rate.num = 0
          ELSE rate.num * n = correct * rate.den

C17_Witness ==
  /\ res.op = "progress"
  /\ Len(practiceHistory) = 4
  /\ [k \in 1..4 |-> practiceHistory[k].difficulty] =
       <<Wrong, Easy, Hard, Wrong>>
  /\ res.stats.accuracyRate.num * 2 = res.stats.accuracyRate.den

\* the records of history h taken from bucket i, counted one at a time
RECURSIVE CountFrom(_, _)
CountFrom(h, i) ==
  IF h = << >> THEN 0
  ELSE (IF Head(h).previousBucket = i THEN 1 ELSE 0) + CountFrom(Tail(h), i)

C19_PracticeReadOnly ==
  [][res'.op = "practice" =>
       /\ heap' = heap
       /\ currentBuckets' = currentBuckets
       /\ practiceHistory' = practiceHistory
       /\ currentDay' = currentDay
       /\ res.op = "practice" =>
            /\ res'.cards = res.cards
            /\ res'.day = res.day
            /\ res'.retired = res.retired]_vars

C19_Witness ==
  /\ res.op = "practice"
  /\ res.day = 1
  /\ res.cards # {}
  /\ res.cards # initialCards
  /\ \E c \in initialCards : BucketsOf(Buckets, c) = {1}
  /\ Len(practiceHistory) = 3
  /\ ENABLED GetPractice

\* C20: while a review submission is between its read of the buckets and
\* its append to the history, no other request changes the buckets, the
\* history or the day; so the Map it writes is computed from the current
\* one, its record carries the bucket the card was read in and the bucket
\* the card is in when the record is appended, and every card is in at most
\* one bucket in every state
C20_UpdateIsAtomic ==
  /\ [](\A c \in initialCards : Cardinality(BucketsOf(Buckets, c)) <= 1)
  /\ [][/\ (handler # NoHandler /\ handler' = handler) =>
             /\ heap' = heap
             /\ currentBuckets' = currentBuckets
             /\ practiceHistory' = practiceHistory
             /\ currentDay' = currentDay
        /\ (handler.pc = "read" /\ handler'.pc = "written") =>
             handler.buckets = currentBuckets
        /\ (handler.pc = "written" /\ handler' = NoHandler) =>
             LET r == practiceHistory'[Len(practiceHistory')]
             IN /\ Len(practiceHistory') = Len(practiceHistory) + 1
                /\ r.card = handler.card
                /\ r.difficulty = handler.difficulty
                /\ BucketsOf(Deref(heap, handler.buckets), handler.card) =
                     {r.previousBucket}
                /\ BucketsOf(Buckets, handler.card) =
                     IF r.newBucket = -1 THEN {} ELSE {r.newBucket}]_vars

C20_Witness ==
  /\ handler.pc = "written"
  /\ handler.difficulty = Easy
  /\ handler.previousBucket = 2
  /\ BucketsOf(Buckets, handler.card) = {3}
  /\ currentDay = 1
  /\ Len(practiceHistory) = 2

\* C21: a hint request for a card of the deck that is in no bucket (retired)
\* does not return the card's hint (the hint of card c is the value c)
C21_RetiredCardNotHinted ==
  (/\ res.op = "hint"
   /\ res.card \in initialCards
   /\ BucketsOf(Buckets, res.card) = {})
  => ~(res.status = 200 /\ res.hint = res.card)

\* C22: for a card that stays in bucket i, every window of 2^i consecutive
\* days (here the one that starts on the day practice was called for) has
\* exactly one day on which practice returns the card, a multiple of 2^i;
\* the card of a bucket 0..4 is returned again on one of the next 16 days;
\* on day 0 practice returns every card of every bucket
C22_DueEveryPeriod ==
  res.op = "call_practice" =>
    \A i \in DOMAIN Buckets.sets : \A c \in Buckets.sets[i] :
      LET dueOn(d) == c \in practice(toBucketSets(Buckets), d)
          window == res.day .. (res.day + 2 ^ i - 1)
          dueDays == {d \in window : dueOn(d)}
      IN /\ c \in res.cards <=> res.day \in dueDays
         /\ Cardinality(dueDays) = 1
         /\ \A d \in dueDays : d % (2 ^ i) = 0
         /\ i <= 4 => \E d \in (res.day + 1) .. (res.day + 16) : dueOn(d)
         /\ dueOn(0)

C22_Witness ==
  /\ res.op = "call_practice"
  /\ res.day = 5
  /\ \E c, d \in Cards :
       /\ BucketsOf(Buckets, c) = {3}
       /\ BucketsOf(Buckets, d) = {4}
       /\ c \notin res.cards
       /\ d \notin res.cards

\* C23: the GET /api/practice handler sends exactly one response, also when
\* all cards are retired
C23_OnePracticeResponse ==
  res.op = "practice" => res.sends = 1

\* C24: POST /api/update with a missing field or a difficulty that is not an
\* outcome is answered 400, with a front and back that no card of the deck
\* has 404; a request answered 400 or 404 leaves the buckets, the history and
\* the day as they were
C24_RejectedRequestChangesNothing ==
  [][res'.op = "update" =>
       LET malformed == \/ res'.card = MissingField
                        \/ res'.difficulty \notin AnswerDifficulty
           unknown == ~malformed /\ res'.card \notin initialCards
       IN /\ malformed => res'.status = 400
          /\ unknown => res'.status = 404
          /\ res'.status \in {400, 404} =>
               /\ malformed \/ unknown
               /\ heap' = heap
               /\ currentBuckets' = currentBuckets
               /\ practiceHistory' = practiceHistory
               /\ currentDay' = currentDay]_vars

C24_Witness ==
  /\ res.op = "update"
  /\ res.status = 404
  /\ res.card \in Cards \ initialCards
  /\ res.difficulty = Hard
  /\ Len(practiceHistory) = 3
  /\ currentDay = 1

\* C25: a review answered 200 leaves every card other than the reviewed one
\* in the bucket it was in, or in none if it was in none, removes no bucket
\* index from the Map, and leaves the day as it was
C25_OnlyReviewedCardMoves ==
  [][(res'.op = "update" /\ res'.status = 200) =>
       /\ \A c \in Cards \ {res'.card} :
            BucketsOf(Deref(heap', currentBuckets'), c) = BucketsOf(Buckets, c)
       /\ DOMAIN Buckets.sets \subseteq
            DOMAIN Deref(heap', currentBuckets').sets
       /\ currentDay' = currentDay]_vars

C25_Witness ==
  /\ res.op = "update"
  /\ res.status = 200
  /\ res.difficulty = Wrong
  /\ BucketsOf(Buckets, res.card) = {0}
  /\ DOMAIN Buckets.sets = {0, 1, 2}
  /\ Buckets.sets[2] = {}
  /\ \E c \in initialCards \ {res.card} : BucketsOf(Buckets, c) = {1}
  /\ currentDay = 1

\* C26: in every state the server reaches, the indices of the Map are
\* 0, ..., k for some k <= 4, and findCardBucket returns for every card of
\* the deck the index of the bucket that holds it, undefined if none does
C26_ContiguousIndices ==
  /\ \E k \in 0..4 : DOMAIN Buckets.sets = 0..k
  /\ \A c \in initialCards :
       LET found == findCardBucket(heap, currentBuckets, c)
       IN IF BucketsOf(Buckets, c) = {} THEN found = undefined
          ELSE BucketsOf(Buckets, c) = {found}

C26_Witness ==
  /\ DOMAIN Buckets.sets = 0..3
  /\ Buckets.sets[0] = {}
  /\ \E c \in initialCards :
       /\ BucketsOf(Buckets, c) = {3}
       /\ findCardBucket(heap, currentBuckets, c) = 3
  /\ res.op = "update"

\* the totalFlashcards that computeProgress reports for assignment b, the
\* cards of the deck that are in no bucket of b, and their sum being the
\* size of the deck
TotalFlashcards(b) == SumSizes(b, DOMAIN b.sets)
RetiredCards(b) == {c \in initialCards : BucketsOf(b, c) = {}}
Conserved(b) ==
  TotalFlashcards(b) + Cardinality(RetiredCards(b)) = Cardinality(initialCards)

\* C27: at the start and after every step, totalFlashcards plus the number
\* of cards of the deck that are in no bucket is the number of cards of the
\* deck; totalFlashcards never increases, decreases by exactly 1 in a review
\* answered 200 after which the reviewed card is in no bucket, and is the
\* same after every other step (a step that is no review and leaves the Map
\* and its Sets as they are leaves the two numbers as they are)
C27_CardsConserved ==
  /\ Conserved(Buckets)
  /\ [][(res'.op = "update" \/ <<heap, currentBuckets>>' # <<heap, currentBuckets>>)
        => \E after \in {Deref(heap', currentBuckets')} :
             \E total \in {TotalFlashcards(Buckets)} :
               \E totalAfter \in {TotalFlashcards(after)} :
                 \E retiredAfter \in {RetiredCards(after)} :
                   LET retires == /\ res'.op = "update"
                                  /\ res'.status = 200
                                  /\ res'.card \in retiredAfter
                   IN /\ totalAfter + Cardinality(retiredAfter)
                          = Cardinality(initialCards)
                      /\ totalAfter <= total
                      /\ totalAfter = IF retires THEN total - 1
                                      ELSE total]_vars

C27_Witness ==
  /\ res.op = "update"
  /\ res.status = 200
  /\ res.difficulty = Easy
  /\ BucketsOf(Buckets, res.card) = {}
  /\ computeProgress(Buckets, practiceHistory).totalFlashcards = 0
  /\ Cardinality(initialCards) = 1

\* C28: once the advance-day request has failed and nothing is awaited, the
\* view shows the error "Failed to advance to the next day", not the screen
\* "Loading practice session..."
C28_AdvanceFailureShown ==
  (/\ view.error = AdvanceError
   /\ pending.nextDays = 0
   /\ pending.loads = 0)
  => Screen(view) = "error"

\* C29: the index of the current card never exceeds the number of practice
\* cards
C29_IndexWithinCards ==
  view.currentCardIndex <= Len(view.practiceCards)

\* C30: a hint on the screen is the hint of the card on the screen
C30_HintOfCurrentCard ==
  HintShown(view) => view.hint = getHint(currentCard(view))

====
